---- MODULE Spec2Model ----
(***************************************************************************)
(* Model of classifier.py: the per-distribution feature extractor, the     *)
(* parallel extraction driver, the anomaly trainer and the distribution    *)
(* scorer.                                                                 *)
(*                                                                         *)
(* Floating point values are modelled as tagged fixed-point numbers:       *)
(* [k |-> "num", v |-> integer], or the IEEE specials nan and inf.  The    *)
(* library fits (GaussianMixture, LocalOutlierFactor, PCA,                 *)
(* IsolationForest) are modelled by what they do to their input: the       *)
(* input validation that makes them raise, and the quantities the code     *)
(* reads off them, computed in integer arithmetic.                         *)
(***************************************************************************)
EXTENDS Integers, Sequences, FiniteSets

VARIABLES
    load_results,     \* the LoadResult collection handed to extract_features_parallel
    aspect_ratio,     \* the aspect_ratio argument
    n_jobs,           \* the n_jobs argument (-1: all execution units)
    pc,               \* where the caller is
    inflight,         \* indices of the items a worker is extracting
    results,          \* parallel_map's result slots, by input position
    train_input,      \* the FeatureRecords handed to train_classifier
    score_input,      \* the FeatureRecords handed to score_distributions
    classifier,       \* the value train_classifier returned
    anomaly_scores    \* the value score_distributions returned

vars == <<load_results, aspect_ratio, n_jobs, pc, inflight, results,
          train_input, score_input, classifier, anomaly_scores>>

----------------------------------------------------------------------------
(* Bounds of the model *)

MaxPoints == 31     \* largest point count of a single-item call
MaxBatch == 2       \* largest LoadResult batch
MaxTrain == 2       \* largest caller-supplied training batch
MaxScore == 2       \* largest caller-supplied scoring batch
MaxWorkers == 2     \* execution units of the parallel map

(* Program constants *)

MinPoints == 30            \* classifier.py:38
IFCB_ASPECT_RATIO == 2     \* classifier.py:12, imported; stands for the default

----------------------------------------------------------------------------
(* Floats *)

Num(v) == [k |-> "num", v |-> v]
NaN == [k |-> "nan", v |-> 0]
Inf == [k |-> "inf", v |-> 0]

IsFinite(f) == f.k = "num"
IsNaN(f) == f.k = "nan"

\* a / b in floating point, b an integer-valued float or a special
FDiv(a, b) ==
    IF IsNaN(a) \/ IsNaN(b) THEN NaN
    ELSE IF a.k = "inf" THEN (IF b.k = "inf" THEN NaN ELSE Inf)
    ELSE IF b.k = "inf" THEN Num(0)
    ELSE IF b.v = 0 THEN (IF a.v = 0 THEN NaN ELSE Inf)
    ELSE Num(a.v \div b.v)

RECURSIVE ISqrtIn(_, _, _)
ISqrtIn(v, lo, hi) ==
    IF lo >= hi THEN lo
    ELSE LET mid == (lo + hi + 1) \div 2
         IN IF mid * mid <= v THEN ISqrtIn(v, mid, hi) ELSE ISqrtIn(v, lo, mid - 1)

Min(a, b) == IF a < b THEN a ELSE b
ISqrt(v) == ISqrtIn(v, 0, Min(v, 46340))

----------------------------------------------------------------------------
(* Option values: None, or an array *)

None == [tag |-> "None", v |-> <<>>]
Arr(v) == [tag |-> "array", v |-> v]

----------------------------------------------------------------------------
(* Point clouds: arrays of shape (n, 2), a point is <<x, y>> *)

RECURSIVE SumTo(_, _)
SumTo(f, n) == IF n = 0 THEN 0 ELSE f[n] + SumTo(f, n - 1)

Sum(f) == SumTo(f, Len(f))

Column(pts, c) == [i \in 1..Len(pts) |-> pts[i][c].v]
Products(a, b) == [i \in 1..Len(a) |-> a[i] * b[i]]

\* n^2 times the population covariance of two columns (an exact integer)
Scatter2(a, b) == Len(a) * Sum(Products(a, b)) - Sum(a) * Sum(b)

\* sklearn's check_array: a fit raises ValueError on nan or inf input
AllFinite(pts) == \A i \in 1..Len(pts) : IsFinite(pts[i][1]) /\ IsFinite(pts[i][2])

\* np.mean(a), np.std(a) of one column
NpMean(a) == Num(Sum(a) \div Len(a))
NpStd(a) == Num(ISqrt(Scatter2(a, a)) \div Len(a))

\* GaussianMixture(n_components=1).fit: the one component's mean and covariance
\* are the sample mean and the population covariance
GaussianMixtureFit(pts) ==
    IF ~AllFinite(pts) THEN [ok |-> FALSE, means_ |-> <<>>, covariances_ |-> <<>>]
    ELSE LET x == Column(pts, 1)
             y == Column(pts, 2)
             n2 == Len(pts) * Len(pts)
         IN [ok |-> TRUE,
             means_ |-> <<NpMean(x), NpMean(y)>>,
             covariances_ |-> << <<Num(Scatter2(x, x) \div n2), Num(Scatter2(x, y) \div n2)>>,
                                 <<Num(Scatter2(y, x) \div n2), Num(Scatter2(y, y) \div n2)>> >>]

\* LocalOutlierFactor(n_neighbors=20, novelty=True).fit: the factor of every
\* training point; each point is given the inlier factor, -1
LocalOutlierFactorFit(pts) ==
    IF ~AllFinite(pts) THEN [ok |-> FALSE, negative_outlier_factor_ |-> <<>>]
    ELSE [ok |-> TRUE, negative_outlier_factor_ |-> [i \in 1..Len(pts) |-> -1]]

\* PCA(n_components=2).fit: the first axis (as a coarse direction in degrees)
\* and the two explained-variance fractions, in percent; the eigenvalues of the
\* 2x2 scatter matrix are (tr +- sqrt(tr^2 - 4 det)) / 2, and all-identical
\* points have total variance 0, whose fractions are 0/0
PCAFit(pts) ==
    IF ~AllFinite(pts) THEN [ok |-> FALSE, angle |-> NaN, explained_variance_ratio_ |-> <<>>]
    ELSE LET x == Column(pts, 1)
             y == Column(pts, 2)
             sxx == Scatter2(x, x)
             syy == Scatter2(y, y)
             sxy == Scatter2(x, y)
             tr == sxx + syy
             disc == (sxx - syy) * (sxx - syy) + 4 * sxy * sxy
             l1 == (tr + ISqrt(disc)) \div 2
             l2 == tr - l1
         IN [ok |-> TRUE,
             angle |-> Num(IF sxy > 0 THEN 45 ELSE IF sxy < 0 THEN -45
                           ELSE IF sxx >= syy THEN 0 ELSE 90),
             explained_variance_ratio_ |->
                 <<FDiv(Num(100 * l1), Num(tr)), FDiv(Num(100 * l2), Num(tr))>>]

\* normalized_points[:, 0] / aspect_ratio
DivideColumn0(pts, ar) ==
    [i \in 1..Len(pts) |-> <<FDiv(pts[i][1], Num(ar)), pts[i][2]>>]

\* line 42: points.copy() is a new array, not the caller's
PointsCopyAliased == "points"
PointsCopy == "copy"

\* lines 42-43: the arrays after the normalization has been written
Normalize(points, ar) ==
    LET ref == PointsCopy
        heap0 == [o \in {"points", "copy"} |-> points]
        heap1 == [heap0 EXCEPT ![ref] = DivideColumn0(@, ar)]
    IN [points |-> heap1["points"], normalized_points |-> heap1[ref]]

\* line 38
TooFewPointsLE(points) == Len(points) <= MinPoints
TooFewPoints(points) == Len(points) < MinPoints

\* lines 76-83: np.concatenate, in this order
ConcatenateSwapped(means, covs, center, spread, lofstats, pcastats) ==
    means \o covs[1] \o covs[2] \o spread \o center \o lofstats \o pcastats
Concatenate(means, covs, center, spread, lofstats, pcastats) ==
    means \o covs[1] \o covs[2] \o center \o spread \o lofstats \o pcastats

NoRecord == [pid |-> 0, features |-> None]

\* lines 87-89: the handler reads pid, which is unbound when line 34 raised
ExceptHandlerConstPid(pid_bound, pid, lr) ==
    IF pid_bound
    THEN [outcome |-> "return", value |-> [pid |-> 1, features |-> None], load_result |-> lr]
    ELSE [outcome |-> "raise", value |-> NoRecord, load_result |-> lr]
ExceptHandler(pid_bound, pid, lr) ==
    IF pid_bound
    THEN [outcome |-> "return", value |-> [pid |-> pid, features |-> None], load_result |-> lr]
    ELSE [outcome |-> "raise", value |-> NoRecord, load_result |-> lr]

\* lines 30-89; load_result after the call is returned with the outcome
extract_features(load_result, ar) ==
    IF "pid" \notin DOMAIN load_result THEN ExceptHandler(FALSE, 0, load_result)
    ELSE LET pid == load_result.pid IN
    IF "points" \notin DOMAIN load_result THEN ExceptHandler(TRUE, pid, load_result)
    ELSE LET points == load_result.points IN
    IF TooFewPoints(points) THEN ExceptHandler(TRUE, pid, load_result)
    ELSE LET arrays == Normalize(points, ar)
             normalized_points == arrays.normalized_points
             after == [load_result EXCEPT !.points = arrays.points]
             gmm == GaussianMixtureFit(normalized_points)
         IN
    IF ~gmm.ok THEN ExceptHandler(TRUE, pid, after)
    ELSE LET center == <<NpMean(Column(normalized_points, 1)), NpMean(Column(normalized_points, 2))>>
             spread == <<NpStd(Column(normalized_points, 1)), NpStd(Column(normalized_points, 2))>>
             lof == LocalOutlierFactorFit(normalized_points)
         IN
    IF ~lof.ok THEN ExceptHandler(TRUE, pid, after)
    ELSE LET lof_scores == [i \in 1..Len(normalized_points) |-> -lof.negative_outlier_factor_[i]]
             pca == PCAFit(normalized_points)
         IN
    IF ~pca.ok THEN ExceptHandler(TRUE, pid, after)
    ELSE LET evr == pca.explained_variance_ratio_
             eigenvalue_ratio == FDiv(evr[1], evr[2])
             variance_explained == evr[1]
             features == Concatenate(gmm.means_, gmm.covariances_, center, spread,
                                     <<NpMean(lof_scores), NpStd(lof_scores)>>,
                                     <<pca.angle, eigenvalue_ratio, variance_explained>>)
         IN [outcome |-> "return", value |-> [pid |-> pid, features |-> Arr(features)],
             load_result |-> after]

----------------------------------------------------------------------------
(* train_classifier and score_distributions *)

IsPresent(result) == result.features # None

RECURSIVE Filter(_, _)
Filter(seq, keep) ==
    IF seq = <<>> THEN <<>>
    ELSE (IF keep[1] THEN <<Head(seq)>> ELSE <<>>) \o Filter(Tail(seq), Tail(keep))

Present(frs) == Filter(frs, [i \in 1..Len(frs) |-> IsPresent(frs[i])])
Absent(frs) == Filter(frs, [i \in 1..Len(frs) |-> ~IsPresent(frs[i])])

FeaturesOf(frs) == [i \in 1..Len(Present(frs)) |-> Present(frs)[i].features.v]
PidsOf(frs) == [i \in 1..Len(frs) |-> frs[i].pid]

\* np.array(features): rows of unequal length do not make a matrix
Ragged(rows) == \E i, j \in 1..Len(rows) : Len(rows[i]) # Len(rows[j])

RowFinite(row) == \A j \in 1..Len(row) : IsFinite(row[j])

\* sklearn's check_array on the stacked rows: a 2-D array with at least one
\* sample and only finite entries, else ValueError
CheckArray(rows) == Len(rows) > 0 /\ ~Ragged(rows) /\ \A i \in 1..Len(rows) : RowFinite(rows[i])

NoModel == [fitted |-> FALSE, n_features_in_ |-> 0, X |-> <<>>]

\* lines 109-112: only the records whose features are not None are stacked
TrainingRowsUnfiltered(feature_results) ==
    [i \in 1..Len(feature_results) |->
        IF IsPresent(feature_results[i]) THEN feature_results[i].features.v ELSE <<Num(0)>>]
TrainingRows(feature_results) == FeaturesOf(feature_results)

\* lines 101-124
train_classifier(feature_results) ==
    LET features == TrainingRows(feature_results)
    IN IF CheckArray(features)
       THEN [outcome |-> "return",
             value |-> [fitted |-> TRUE, n_features_in_ |-> Len(features[1]), X |-> features]]
       ELSE [outcome |-> "raise", value |-> NoModel]

RowSum(row) == Sum([j \in 1..Len(row) |-> row[j].v])

\* IsolationForest.score_samples: one finite, negative score per row, a function
\* of the row and of the fitted forest
ScoreSample(model, row) == Num(0 - (1 + ((RowSum(row) + RowSum(model.X[1])) % 7)))

\* score_samples validates its input against the fitted width
CanScore(model, rows) ==
    CheckArray(rows) /\ \A i \in 1..Len(rows) : Len(rows[i]) = model.n_features_in_

\* lines 148-151: zip(pids, scores)
ZipReversed(pids, scores) ==
    [i \in 1..Min(Len(pids), Len(scores)) |->
        [pid |-> pids[i], anomaly_score |-> scores[Len(scores) + 1 - i]]]
Zip(pids, scores) ==
    [i \in 1..Min(Len(pids), Len(scores)) |-> [pid |-> pids[i], anomaly_score |-> scores[i]]]

\* line 153
BadScoresDropped(bad_pids) == <<>>
BadScores(bad_pids) == [i \in 1..Len(bad_pids) |-> [pid |-> bad_pids[i], anomaly_score |-> NaN]]

\* lines 127-155
score_distributions(model, feature_results) ==
    LET features == FeaturesOf(feature_results)
        pids == PidsOf(Present(feature_results))
        bad_pids == PidsOf(Absent(feature_results))
    IN IF CanScore(model, features)
       THEN [outcome |-> "return",
             value |-> Zip(pids, [i \in 1..Len(features) |-> ScoreSample(model, features[i])])
                       \o BadScores(bad_pids)]
       ELSE [outcome |-> "raise", value |-> <<>>]

----------------------------------------------------------------------------
(* Inputs *)

Pids == {1, 2}
AspectRatios == {1, IFCB_ASPECT_RATIO}
Shapes == {"scatter", "line", "same", "nan"}

\* the i-th point of a cloud of the given shape: scattered, on a horizontal
\* line, all identical, or scattered with a nan coordinate in the first point
Point(i, shape) ==
    CASE shape = "scatter" -> <<Num(((i * 7) % 4) * 2), Num((i * 3) % 5)>>
      [] shape = "line" -> <<Num((i % 4) * 2), Num(3)>>
      [] shape = "same" -> <<Num(4), Num(3)>>
      [] shape = "nan" -> <<IF i = 1 THEN NaN ELSE Num(((i * 7) % 4) * 2), Num((i * 3) % 5)>>

PointCloud(n, shape) == [i \in 1..n |-> Point(i, shape)]

\* what a single call of extract_features is tried on: every point count up to
\* MaxPoints in every shape, and dictionaries without 'points' or without 'pid'
SingleItems ==
    {[pid |-> 1, points |-> PointCloud(n, sh)] : n \in 0..MaxPoints, sh \in Shapes}
    \cup {[pid |-> 1]}
    \cup {[points |-> PointCloud(n, "scatter")] : n \in {MinPoints - 1, MinPoints}}

\* what a batch is made of
BatchItems ==
    {[pid |-> p, points |-> PointCloud(MinPoints - 1, "scatter")] : p \in Pids}
    \cup {[pid |-> 1, points |-> PointCloud(MinPoints, "scatter")],
          [pid |-> 2, points |-> PointCloud(MinPoints, "line")],
          [points |-> PointCloud(MinPoints, "scatter")]}

SeqsUpTo(S, n) == UNION {[1..k -> S] : k \in 0..n}

LoadBatches == {<<it>> : it \in SingleItems} \cup SeqsUpTo(BatchItems, MaxBatch)

\* feature vectors a caller may hold: two finite ones of the extractor's width,
\* one with an infinite eigenvalue ratio, one of another width
Vector(a) == [j \in 1..15 |-> Num(a)]
VectorInf == [j \in 1..15 |-> IF j = 14 THEN Inf ELSE Num(1)]
VectorShort == [j \in 1..5 |-> Num(1)]

TrainItems ==
    {[pid |-> 1, features |-> f] : f \in {None, Arr(Vector(1)), Arr(VectorInf), Arr(VectorShort)}}
ScoreItems ==
    {[pid |-> p, features |-> f] :
        p \in Pids, f \in {None, Arr(Vector(1)), Arr(Vector(2)), Arr(VectorInf), Arr(VectorShort)}}

TrainBatches == SeqsUpTo(TrainItems, MaxTrain)
ScoreBatches == SeqsUpTo(ScoreItems, MaxScore)

----------------------------------------------------------------------------
(* The state machine *)

\* a result slot of parallel_map: pending, returned (with the value) or raised
Pending == [status |-> "pending", value |-> NoRecord]

\* n_jobs = -1 means all execution units
Units == IF n_jobs = -1 THEN MaxWorkers ELSE n_jobs

Init ==
    /\ \/ /\ pc = "start"
          /\ load_results \in LoadBatches
          /\ aspect_ratio \in (IF Len(load_results) = 1 THEN AspectRatios ELSE {IFCB_ASPECT_RATIO})
          /\ n_jobs \in (IF Len(load_results) = 1 THEN {1} ELSE {-1, 1})
          /\ train_input = <<>>
       \/ /\ pc = "extracted"
          /\ load_results = <<>>
          /\ aspect_ratio = IFCB_ASPECT_RATIO
          /\ n_jobs = -1
          /\ train_input \in TrainBatches
    /\ inflight = {}
    /\ results = <<>>
    /\ score_input = <<>>
    /\ classifier = NoModel
    /\ anomaly_scores = <<>>

\* lines 92-98: extract_features_parallel hands the batch to parallel_map
CallExtractParallel ==
    /\ pc = "start"
    /\ pc' = "extracting"
    /\ results' = [i \in 1..Len(load_results) |-> Pending]
    /\ UNCHANGED <<load_results, aspect_ratio, n_jobs, inflight, train_input,
                   score_input, classifier, anomaly_scores>>

\* parallel_map: a free execution unit takes an item no unit has taken
WorkerTake(i) ==
    /\ pc = "extracting"
    /\ i \notin inflight
    /\ results[i].status = "pending"
    /\ Cardinality(inflight) < Units
    /\ inflight' = inflight \cup {i}
    /\ UNCHANGED <<load_results, aspect_ratio, n_jobs, pc, results, train_input,
                   score_input, classifier, anomaly_scores>>

\* parallel_map: extract_features(item, aspect_ratio) returns into the item's slot
WorkerReturn(i) ==
    /\ pc = "extracting"
    /\ i \in inflight
    /\ LET r == extract_features(load_results[i], aspect_ratio)
       IN /\ r.outcome = "return"
          /\ results' = [results EXCEPT ![i] = [status |-> "returned", value |-> r.value]]
          /\ load_results' = [load_results EXCEPT ![i] = r.load_result]
    /\ inflight' = inflight \ {i}
    /\ UNCHANGED <<aspect_ratio, n_jobs, pc, train_input, score_input, classifier,
                   anomaly_scores>>

\* parallel_map: an exception of extract_features propagates to the caller
WorkerRaise(i) ==
    /\ pc = "extracting"
    /\ i \in inflight
    /\ LET r == extract_features(load_results[i], aspect_ratio)
       IN /\ r.outcome = "raise"
          /\ results' = [results EXCEPT ![i] = [status |-> "raised", value |-> r.value]]
          /\ load_results' = [load_results EXCEPT ![i] = r.load_result]
    /\ pc' = "aborted"
    /\ inflight' = inflight \ {i}
    /\ UNCHANGED <<aspect_ratio, n_jobs, train_input, score_input, classifier,
                   anomaly_scores>>

\* parallel_map returns once every item has its result, in input order
Join ==
    /\ pc = "extracting"
    /\ \A i \in 1..Len(results) : results[i].status = "returned"
    /\ train_input' = [i \in 1..Len(results) |-> results[i].value]
    /\ pc' = "extracted"
    /\ UNCHANGED <<load_results, aspect_ratio, n_jobs, inflight, results, score_input,
                   classifier, anomaly_scores>>

TrainReturn ==
    /\ pc = "extracted"
    /\ LET r == train_classifier(train_input)
       IN /\ r.outcome = "return"
          /\ classifier' = r.value
    /\ pc' = "trained"
    /\ UNCHANGED <<load_results, aspect_ratio, n_jobs, inflight, results, train_input,
                   score_input, anomaly_scores>>

TrainRaise ==
    /\ pc = "extracted"
    /\ train_classifier(train_input).outcome = "raise"
    /\ pc' = "train_raised"
    /\ UNCHANGED <<load_results, aspect_ratio, n_jobs, inflight, results, train_input,
                   score_input, classifier, anomaly_scores>>

\* after a pipeline run the records scored are the ones extracted; a caller
\* holding records from elsewhere scores any batch with the model
ScoreArgs == IF load_results = <<>> THEN ScoreBatches \cup {train_input} ELSE {train_input}

ScoreReturn(batch) ==
    /\ pc = "trained"
    /\ score_input' = batch
    /\ LET r == score_distributions(classifier, batch)
       IN /\ r.outcome = "return"
          /\ anomaly_scores' = r.value
    /\ pc' = "scored"
    /\ UNCHANGED <<load_results, aspect_ratio, n_jobs, inflight, results, train_input,
                   classifier>>

ScoreRaise(batch) ==
    /\ pc = "trained"
    /\ score_input' = batch
    /\ score_distributions(classifier, batch).outcome = "raise"
    /\ pc' = "score_raised"
    /\ UNCHANGED <<load_results, aspect_ratio, n_jobs, inflight, results, train_input,
                   classifier, anomaly_scores>>

Next ==
    \/ CallExtractParallel
    \/ \E i \in 1..Len(load_results) : WorkerTake(i)
    \/ \E i \in 1..Len(load_results) : WorkerReturn(i)
    \/ \E i \in 1..Len(load_results) : WorkerRaise(i)
    \/ Join
    \/ TrainReturn
    \/ TrainRaise
    \/ \E batch \in ScoreArgs : ScoreReturn(batch)
    \/ \E batch \in ScoreArgs : ScoreRaise(batch)

Spec == Init /\ [][Next]_vars

----------------------------------------------------------------------------
(* Properties *)

Slots == 1..Len(results)

\* a LoadResult carries both keys
IsLoadResult(item) == "pid" \in DOMAIN item /\ "points" \in DOMAIN item

\* the multiset of the pids of a sequence of records
PidBag(recs) ==
    [p \in {recs[i].pid : i \in 1..Len(recs)} |->
        Cardinality({i \in 1..Len(recs) : recs[i].pid = p})]

ScoreCalled == pc \in {"scored", "score_raised"}
TrainCalled == pc \in {"trained", "train_raised", "scored", "score_raised"}
ExtractReturned == Len(results) > 0 /\ pc \notin {"start", "extracting", "aborted"}

\* every present vector of the scored batch is finite and of the model's width
ScorableRows ==
    \A i \in 1..Len(score_input) :
        IsPresent(score_input[i]) =>
            /\ RowFinite(score_input[i].features.v)
            /\ Len(score_input[i].features.v) = classifier.n_features_in_

\* C1: score_distributions returns normally, with one ScoreRecord per input
\* record and the same pids, for every batch, the all-absent and the empty batch
\* included.  Stated here for the batches whose present vectors the model can
\* score, which leaves the absent-features records as the only possible cause.
C1_ScoreReturnsOnePerInput ==
    (ScoreCalled /\ ScorableRows) =>
        /\ pc = "scored"
        /\ Len(anomaly_scores) = Len(score_input)
        /\ PidBag(anomaly_scores) = PidBag(score_input)

NaNScored == Filter(anomaly_scores, [i \in 1..Len(anomaly_scores) |-> IsNaN(anomaly_scores[i].anomaly_score)])
RealScored == Filter(anomaly_scores, [i \in 1..Len(anomaly_scores) |-> ~IsNaN(anomaly_scores[i].anomaly_score)])

\* C2: in the output of score_distributions the records carrying nan are
\* exactly the records of the absent-features inputs, pid by pid with
\* multiplicity, and the records carrying a number are exactly those of the
\* present-features inputs.
C2_NaNIffAbsent ==
    pc = "scored" =>
        /\ PidBag(NaNScored) = PidBag(Absent(score_input))
        /\ PidBag(RealScored) = PidBag(Present(score_input))

C2_Witness ==
    /\ pc = "scored"
    /\ Len(Absent(score_input)) > 0
    /\ Len(Present(score_input)) > 0

\* C3: a LoadResult with fewer than 30 points, whatever they are, comes back
\* with its pid and features None; one with exactly 30 (finite) points is not
\* rejected.
C3_TooFewPointsAbsent ==
    \A i \in Slots :
        (results[i].status # "pending" /\ IsLoadResult(load_results[i])) =>
            LET item == load_results[i] IN
            /\ Len(item.points) < MinPoints =>
                   /\ results[i].status = "returned"
                   /\ results[i].value = [pid |-> item.pid, features |-> None]
            /\ (Len(item.points) = MinPoints /\ AllFinite(item.points)) =>
                   /\ results[i].status = "returned"
                   /\ results[i].value.pid = item.pid
                   /\ IsPresent(results[i].value)

C3_Witness ==
    \E i, j \in Slots :
        /\ IsLoadResult(load_results[i]) /\ IsLoadResult(load_results[j])
        /\ Len(load_results[i].points) = MinPoints - 1
        /\ results[i].status = "returned" /\ ~IsPresent(results[i].value)
        /\ Len(load_results[j].points) = MinPoints
        /\ results[j].status = "returned" /\ IsPresent(results[j].value)

\* C4: extract_features never raises: whichever step fails, reading pid
\* included, the call returns a record with features None.
C4_ExtractNeverRaises ==
    \A i \in Slots : results[i].status # "raised"

\* C5: the multiset of pids extract_features_parallel returns is the multiset
\* of pids of its input, one record per item, for every n_jobs and every
\* order in which the workers take and finish the items.
C5_PidsPreserved ==
    ExtractReturned =>
        /\ Len(train_input) = Len(load_results)
        /\ PidBag(train_input) = PidBag(load_results)

C5_Witness ==
    /\ ExtractReturned
    /\ Units > 1
    /\ Len(load_results) = 2
    /\ load_results[1].pid = load_results[2].pid
    /\ \E i \in 1..2 : ~IsPresent(train_input[i])

\* the conditions under which the claim says a model is returned
SomePresent == \E i \in 1..Len(train_input) : IsPresent(train_input[i])
SameLength ==
    \A i, j \in 1..Len(train_input) :
        (IsPresent(train_input[i]) /\ IsPresent(train_input[j])) =>
            Len(train_input[i].features.v) = Len(train_input[j].features.v)
PresentFinite ==
    \A i \in 1..Len(train_input) :
        IsPresent(train_input[i]) => RowFinite(train_input[i].features.v)

C7_BatchNeverAborts == pc # "aborted"

NotAllIdentical(points) == \E i, j \in 1..Len(points) : points[i] # points[j]

\* the LoadResults of the claim: at least 30 finite points, not all identical
NonDegenerate(item) ==
    /\ IsLoadResult(item)
    /\ Len(item.points) >= MinPoints
    /\ AllFinite(item.points)
    /\ NotAllIdentical(item.points)

\* C8 as claimed: such a LoadResult yields a vector of exactly 13 entries.
C8_ThirteenFeatures ==
    \A i \in Slots :
        (results[i].status # "pending" /\ NonDegenerate(load_results[i])) =>
            /\ results[i].status = "returned"
            /\ IsPresent(results[i].value)
            /\ Len(results[i].value.features.v) = 13

\* C8, amended: such a LoadResult yields its pid and a vector of exactly 15
\* entries: mean(2), covariance(4, row-major), centroid(2), spread(2), LOF
\* mean/std(2), angle/eigenvalue-ratio/variance-explained(3), in this order,
\* all of the normalized points.
C8_FifteenFeaturesInOrder ==
    \A i \in Slots :
        (results[i].status # "pending" /\ NonDegenerate(load_results[i])) =>
            LET np == DivideColumn0(load_results[i].points, aspect_ratio)
                gmm == GaussianMixtureFit(np)
                lof == [k \in 1..Len(np) |-> -LocalOutlierFactorFit(np).negative_outlier_factor_[k]]
                pca == PCAFit(np)
                v == results[i].value.features.v
            IN /\ results[i].status = "returned"
               /\ results[i].value.pid = load_results[i].pid
               /\ IsPresent(results[i].value)
               /\ Len(v) = 15
               /\ <<v[1], v[2]>> = gmm.means_
               /\ <<v[3], v[4]>> = gmm.covariances_[1]
               /\ <<v[5], v[6]>> = gmm.covariances_[2]
               /\ <<v[7], v[8]>> = <<NpMean(Column(np, 1)), NpMean(Column(np, 2))>>
               /\ <<v[9], v[10]>> = <<NpStd(Column(np, 1)), NpStd(Column(np, 2))>>
               /\ <<v[11], v[12]>> = <<NpMean(lof), NpStd(lof)>>
               /\ v[13] = pca.angle
               /\ v[14] = FDiv(pca.explained_variance_ratio_[1], pca.explained_variance_ratio_[2])
               /\ v[15] = pca.explained_variance_ratio_[1]

C8_Witness ==
    \E i \in Slots :
        /\ results[i].status = "returned"
        /\ NonDegenerate(load_results[i])
        /\ Len(results[i].value.features.v) = 15
        /\ results[i].value.features.v[7] # results[i].value.features.v[9]

\* C9: the output of score_distributions is the present-features records in
\* input order, each pid with the model's score of its own vector, followed by
\* the absent-features records in input order.
C9_ScoresAligned ==
    pc = "scored" =>
        LET good == Present(score_input)
            bad == Absent(score_input)
        IN /\ Len(anomaly_scores) = Len(good) + Len(bad)
           /\ \A i \in 1..Len(good) :
                  anomaly_scores[i] =
                      [pid |-> good[i].pid,
                       anomaly_score |-> ScoreSample(classifier, good[i].features.v)]
           /\ \A i \in 1..Len(bad) :
                  anomaly_scores[Len(good) + i] = [pid |-> bad[i].pid, anomaly_score |-> NaN]

C9_Witness ==
    /\ pc = "scored"
    /\ Len(score_input) = 2
    /\ ~IsPresent(score_input[1])
    /\ IsPresent(score_input[2])
    /\ score_input[1].pid # score_input[2].pid
    /\ anomaly_scores[1].pid = score_input[2].pid
    /\ anomaly_scores[2].pid = score_input[1].pid

\* C10: no operation mutates its input: the points of every LoadResult are the
\* same after extract_features as before, on the success and on the failure
\* path; train_classifier leaves its FeatureRecords as they are;
\* score_distributions leaves the FeatureRecords and the model as they are.
C10_InputsNotMutated ==
    [][/\ load_results' = load_results
       /\ (pc \in {"extracted", "trained"}) => train_input' = train_input
       /\ pc = "trained" => classifier' = classifier]_vars

C10_Witness ==
    \E i \in Slots :
        /\ results[i].status = "returned"
        /\ IsPresent(results[i].value)
        /\ DivideColumn0(load_results[i].points, aspect_ratio) # load_results[i].points

====
